---- MODULE Spec2Model ----
(***************************************************************************)
(* A model of the two provider adapters of src/services/azureService.js    *)
(* (AzureOpenAIService, the structured-output variant, and OllamaService,   *)
(* the free-text variant) and of RagService.askQuestion of                  *)
(* src/services/ragService.js.                                              *)
(*                                                                         *)
(* Texts are modelled as sequences of blocks [k |-> kind, n |-> characters]:*)
(* the kind says which piece of prompt text the block is, n is its length.  *)
(* JavaScript values of a backend payload are records [t |-> type, s |->    *)
(* sequence of strings].                                                    *)
(***************************************************************************)
EXTENDS Integers, Sequences, FiniteSets, TLC

\* --------------------------------------------------------------- bounds
MaxContentLen == 40
LowTokenLimit == 7
HighTokenLimit == 12
WideTokenLimit == 2048
ResponseTokens == 2
MaxDocId == 1
MaxSources == 2
MaxTagId == 2
MaxRuns == 2
MaxCalls == 3

\* ------------------------------------------------------ program constants
CharsPerToken == 4
MaxExternalTokens == 500
MaxRagSources == 5
AnalysisResponseTokens == 1024
GenerateResponseTokens == 512

\* ------------------------------------------------------------ JS values
Str(x) == [t |-> "str", s |-> <<x>>]
Arr(q) == [t |-> "arr", s |-> q]
Num(x) == [t |-> "num", s |-> <<x>>]
Null == [t |-> "null", s |-> <<>>]
Undef == [t |-> "undef", s |-> <<>>]

\* JavaScript truthiness of a payload value, as `x || null` uses it.
Falsy(v) == v.t \in {"null", "undef"} \/ v = Str("") \/ v = Num("0")
OrNull(v) == IF Falsy(v) THEN Null ELSE v

Fields ==
  {"title", "correspondent", "tags", "document_type", "document_date",
   "language", "custom_fields"}

\* An object with the given fields; every other field is absent.
Obj(title, correspondent, tags, dtype, ddate, language, cfields) ==
  [f \in Fields |->
     CASE f = "title" -> title
       [] f = "correspondent" -> correspondent
       [] f = "tags" -> tags
       [] f = "document_type" -> dtype
       [] f = "document_date" -> ddate
       [] f = "language" -> language
       [] OTHER -> cfields]

\* The canonical empty document {tags: [], correspondent: null}.
EmptyDocument == Obj(Undef, Null, Arr(<<>>), Undef, Undef, Undef, Undef)

\* Payloads a backend may answer with.
Conforming ==
  Obj(Str("T"), Str("X"), Arr(<<"A", "B">>), Str("Invoice"), Str("D"), Str("en"), Undef)
\* A payload that holds every field of the shape.
FullPayload ==
  Obj(Str("T"), Str("X"), Arr(<<"A">>), Str("Invoice"), Str("D"), Str("en"), Arr(<<"f">>))
Payloads ==
  { Conforming, FullPayload,
    [FullPayload EXCEPT !["title"] = Str("")],
    [Conforming EXCEPT !["tags"] = Str("A")],
    [Conforming EXCEPT !["tags"] = Undef],
    [Conforming EXCEPT !["correspondent"] = Null],
    [Conforming EXCEPT !["correspondent"] = Num("7")],
    [Conforming EXCEPT !["correspondent"] = Str(""), !["title"] = Undef],
    Obj(Undef, Str("X"), Arr(<<>>), Undef, Undef, Undef, Arr(<<"f">>)) }

\* --------------------------------------------------------------- tokens
Max(a, b) == IF a >= b THEN a ELSE b
Min(a, b) == IF a <= b THEN a ELSE b
CeilDiv(a, b) == (a + b - 1) \div b

RECURSIVE TextLen(_)
TextLen(text) == IF text = <<>> THEN 0 ELSE Head(text).n + TextLen(Tail(text))

\* serviceUtils.calculateTokens: the estimated token count of a text.
calculateTokens(len) == CeilDiv(len, CharsPerToken)

\* serviceUtils.calculateTotalPromptTokens(systemPrompt, additionalPrompts).
RECURSIVE SumTokens(_)
SumTokens(lens) ==
  IF lens = <<>> THEN 0 ELSE calculateTokens(Head(lens)) + SumTokens(Tail(lens))
calculateTotalPromptTokens(systemPrompt, additional) ==
  calculateTokens(TextLen(systemPrompt)) + SumTokens(additional)

\* serviceUtils.truncateToTokenLimit: the longest prefix of the text whose
\* estimated token count is at most availableTokens; a text that fits is
\* returned unchanged.
truncateToTokenLimit(len, availableTokens) ==
  IF calculateTokens(len) <= availableTokens THEN len
  ELSE Max(0, availableTokens) * CharsPerToken

\* OllamaService._calculatePromptTokenCount
calculatePromptTokenCount(len) == CeilDiv(len, CharsPerToken)

\* --------------------------------------------------------- prompt blocks
Block(kind, len) == [k |-> kind, n |-> len]

BlockLen(kind) ==
  CASE kind = "taxonomy" -> 8
    [] kind = "SYSTEM_PROMPT" -> 8
    [] kind = "mustHave%CUSTOMFIELDS%" -> 8
    [] kind = "mustHave+customFields" -> 12
    [] kind = "predefinedTagsIntro" -> 4
    [] kind = "specialPromptPreDefinedTags" -> 4
    [] kind = "PROMPT_TAGS" -> 4
    [] kind = "playgroundMustHave" -> 8
    [] kind = "ollamaSystemPrompt" -> 16
    [] kind = "ollamaPlaygroundSystemPrompt" -> 12
    [] kind = "ragAssistantSystemPrompt" -> 8
    [] OTHER -> 4

Named(kind) == Block(kind, BlockLen(kind))

\* config.mustHavePrompt as configured: it holds the %CUSTOMFIELDS% placeholder.
RawMustHave == Named("mustHave%CUSTOMFIELDS%")
ExpandedMustHave == Named("mustHave+customFields")

\* String.prototype.replace('%CUSTOMFIELDS%', customFieldsStr) on a text block.
ReplaceCustomFields(block) ==
  IF block.k = "mustHave%CUSTOMFIELDS%" THEN ExpandedMustHave ELSE block

\* RestrictionPromptService.processRestrictionsInPrompt: rewrites the
\* restriction placeholders of the prompt text; the blocks stay in place.
processRestrictionsInPrompt(prompt, restricted) ==
  [i \in 1..Len(prompt) |->
     IF prompt[i].k = "SYSTEM_PROMPT" /\ restricted
     THEN Block("SYSTEM_PROMPT", prompt[i].n + 4)
     ELSE prompt[i]]

\* ------------------------------------------------------------- results
Metrics(p, c, t) == <<p, c, t>>
NoMetrics == <<>>

SuccessResult(document, metrics, truncated) ==
  [keys |-> {"document", "metrics", "truncated"}, document |-> document,
   metrics |-> metrics, truncated |-> truncated, error |-> ""]

\* The catch block of analyzeDocument / analyzePlayground.
ErrorResult(message) ==
  [keys |-> {"document", "metrics", "error"}, document |-> EmptyDocument,
   metrics |-> NoMetrics, truncated |-> FALSE, error |-> message]

NoResult ==
  [keys |-> {}, document |-> EmptyDocument, metrics |-> NoMetrics,
   truncated |-> FALSE, error |-> ""]

NoStatus == [keys |-> {}, status |-> "", model |-> "", error |-> ""]

\* A request on the wire.
ChatRequest(system, contentLen, maxTokens) ==
  [api |-> "chat.completions", system |-> system,
   user |-> <<Block("content", contentLen)>>, content |-> contentLen,
   num_ctx |-> 0, max_tokens |-> maxTokens]

GenerateRequest(system, prompt, contentLen, numCtx) ==
  [api |-> "generate", system |-> system, user |-> prompt,
   content |-> contentLen, num_ctx |-> numCtx, max_tokens |-> 0]

\* --------------------------------------------------------------- state
VARIABLES
  config,       \* the shared configuration (config module and process.env)
  client,       \* AzureOpenAIService.client: "null" or "ready"
  thumbs,       \* ids with a cached thumbnail under ./public/images
  call,         \* the adapter call that has just completed, or Idle
  tagCache,     \* paperlessService.tagCache: the tag records, in insertion order
  rag,          \* the askQuestion execution: its position and its locals
  caching       \* the analyzeDocument executions inside their thumbnail caching

adapterVars == <<config, client, thumbs, call>>
ragVars == <<tagCache, rag>>
vars == <<config, client, thumbs, call, tagCache, rag, caching>>

\* ------------------------------------------------------- configuration
\* The condition of the "existing taxonomy" branch (azureService.js:106, 751).
ExistingMode(cfg) == cfg.useExistingData /\ ~cfg.restrictToExisting

Config(provider, limit, existing, restrict, promptTags, maxLen) ==
  [aiProvider |-> provider, tokenLimit |-> limit, responseTokens |-> ResponseTokens,
   useExistingData |-> existing, restrictToExisting |-> restrict,
   usePromptTags |-> promptTags, contentMaxLength |-> maxLen,
   mustHavePrompt |-> RawMustHave]

\* CONTENT_MAX_LENGTH unset.
NoMaxLength == 0 - 1

TokenLimits == {LowTokenLimit, HighTokenLimit, WideTokenLimit}

\* The settings of useExistingData and of the restriction flags: the existing
\* taxonomy mode, a restricted mode, and neither.
Modes == {<<TRUE, FALSE>>, <<TRUE, TRUE>>, <<FALSE, FALSE>>}

Configs ==
  { Config(pr, lim, m[1], m[2], pt, ml) :
      pr \in {"azure", "ollama"}, lim \in TokenLimits, m \in Modes,
      pt \in BOOLEAN, ml \in {NoMaxLength, MaxContentLen \div 2} }

\* ----------------------------------------------------- call inputs
ContentLens == {0, MaxContentLen \div 2, MaxContentLen}
DocIds == {0, MaxDocId}        \* 0 stands for an undefined id
CustomPromptLens == {0, 4}     \* 0: no custom prompt
ExternalLens == {0, 8}         \* 0: no external data
ThumbOutcomes == {"data", "nothing", "fetchError", "writeError"}

\* What the structured-output backend answers.
AzureResponse(kind, usage, parse, obj) ==
  [kind |-> kind, usage |-> usage, parse |-> parse, obj |-> obj]
AzureResponses ==
  { AzureResponse("transportError", FALSE, "bad", Conforming),
    AzureResponse("noContent", TRUE, "bad", Conforming),
    AzureResponse("content", FALSE, "obj", Conforming),
    AzureResponse("content", TRUE, "bad", Conforming),
    AzureResponse("content", TRUE, "null", Conforming) }
  \cup { AzureResponse("content", TRUE, "obj", p) : p \in Payloads }

UsageReported == Metrics(5, 3, 8)

\* ------------------------------------------- effects of a handler body
\* What a handler body did: whether it threw, what it returned, the requests it
\* sent and the state it left.
Eff(threw, msg, result, sent, budget, cl, th, mustHave) ==
  [threw |-> threw, msg |-> msg, result |-> result, text |-> "",
   status |-> NoStatus, sent |-> sent, budget |-> budget, client |-> cl,
   thumbs |-> th, mustHave |-> mustHave]

\* ------------------------------------------- AzureOpenAIService
\* An initialize that creates the client whatever the configured provider is.
initializeAnyProvider(cl, cfg) == "ready"

initialize(cl, cfg) ==
  IF cl = "null" /\ cfg.aiProvider = "azure" THEN "ready" ELSE cl

\* Thumbnail caching inside analyzeDocument: [ok, msg, thumbs].
AzureThumbnailCaching(cache, id, thumb) ==
  IF id \in cache THEN [ok |-> TRUE, msg |-> "", thumbs |-> cache]
  ELSE CASE thumb = "fetchError" ->
              [ok |-> FALSE, msg |-> "getThumbnailImage failed", thumbs |-> cache]
         [] thumb = "nothing" ->
              \* fs.writeFile(cachePath, null) rejects with a TypeError
              [ok |-> FALSE, msg |-> "The \"data\" argument must be of type string",
               thumbs |-> cache]
         [] thumb = "writeError" ->
              [ok |-> FALSE, msg |-> "EACCES: permission denied", thumbs |-> cache]
         [] OTHER -> [ok |-> TRUE, msg |-> "", thumbs |-> cache \cup {id}]

AzureValidateAndTruncateExternalApiData(len) ==
  IF calculateTokens(len) > MaxExternalTokens
  THEN truncateToTokenLimit(len, MaxExternalTokens)
  ELSE len

ExternalSection(len) == <<Named("externalLabel"), Block("externalData", len)>>

\* Prompt assembly of analyzeDocument: the system prompt that is built and the
\* value config.mustHavePrompt is left with.
AzureSystemPrompt(cfg, custom, ext) ==
  LET mustHave == IF ExistingMode(cfg) THEN cfg.mustHavePrompt
                  ELSE ReplaceCustomFields(cfg.mustHavePrompt)
      p1 == IF ExistingMode(cfg)
            THEN <<Named("taxonomy"), Named("SYSTEM_PROMPT"),
                   ReplaceCustomFields(cfg.mustHavePrompt)>>
            ELSE <<Named("SYSTEM_PROMPT"), mustHave>>
      p2 == processRestrictionsInPrompt(p1, cfg.restrictToExisting)
      p3 == IF ext > 0
            THEN p2 \o ExternalSection(AzureValidateAndTruncateExternalApiData(ext))
            ELSE p2
      p4 == IF cfg.usePromptTags
            THEN <<Named("predefinedTagsIntro"), Named("specialPromptPreDefinedTags")>>
            ELSE p3
      p5 == IF custom > 0 THEN <<Block("customPrompt", custom), mustHave>> ELSE p4
  IN  [system |-> p5, mustHave |-> mustHave]

\* availableTokens = maxTokens - (totalPromptTokens + responseTokens)
AvailableTokens(cfg, promptTokens) ==
  cfg.tokenLimit - (promptTokens + cfg.responseTokens)

\* The guard with the boundary left out.
BudgetExceededStrict(availableTokens) == availableTokens < 0

\* The guard that aborts the request (azureService.js:156).
BudgetExceeded(availableTokens) == availableTokens <= 0

\* Response handling shared by analyzeDocument and analyzePlayground:
\* [ok, msg, result].
AzureHandleResponse(resp, sentLen, contentLen) ==
  CASE resp.kind = "transportError" ->
         [ok |-> FALSE, msg |-> "Request failed", result |-> NoResult]
    [] resp.kind = "noContent" ->
         [ok |-> FALSE, msg |-> "Invalid API response structure", result |-> NoResult]
    [] ~resp.usage ->
         [ok |-> FALSE, msg |-> "Cannot read properties of undefined (reading 'total_tokens')",
          result |-> NoResult]
    [] resp.parse = "bad" ->
         [ok |-> FALSE, msg |-> "Invalid JSON response from API", result |-> NoResult]
    [] resp.parse = "null"
       \/ resp.obj["tags"].t # "arr" \/ resp.obj["correspondent"].t # "str" ->
         [ok |-> FALSE,
          msg |-> "Invalid response structure: missing tags array or correspondent string",
          result |-> NoResult]
    [] OTHER ->
         [ok |-> TRUE, msg |-> "",
          result |-> SuccessResult(resp.obj, UsageReported, sentLen < contentLen)]

AzureAnalyzeDocumentBody(cfg, cl, cache, content, id, custom, ext, thumb, resp) ==
  LET cl1 == initialize(cl, cfg)
      th == AzureThumbnailCaching(cache, id, thumb)
      pa == AzureSystemPrompt(cfg, custom, ext)
      promptTokens ==
        calculateTotalPromptTokens(pa.system,
          IF cfg.usePromptTags THEN <<BlockLen("PROMPT_TAGS")>> ELSE <<>>)
      availableTokens == AvailableTokens(cfg, promptTokens)
      truncatedContent == truncateToTokenLimit(content, availableTokens)
      request == ChatRequest(pa.system, truncatedContent, 0)
      handled == AzureHandleResponse(resp, truncatedContent, content)
  IN  IF cl1 = "null"
      THEN Eff(TRUE, "AzureOpenAI client not initialized", NoResult, <<>>, <<>>,
               cl1, cache, cfg.mustHavePrompt)
      ELSE IF ~th.ok
      THEN Eff(TRUE, th.msg, NoResult, <<>>, <<>>, cl1, th.thumbs, cfg.mustHavePrompt)
      ELSE IF BudgetExceeded(availableTokens)
      THEN Eff(TRUE, "Token limit exceeded: prompt too large for available token limit",
               NoResult, <<>>, <<availableTokens>>, cl1, th.thumbs, pa.mustHave)
      ELSE Eff(~handled.ok, handled.msg, handled.result, <<request>>,
               <<availableTokens>>, cl1, th.thumbs, pa.mustHave)

\* The body's error escapes to the caller (no catch around the body).
AnalyzeCatchRethrow(eff) == eff

\* try { body } catch (error) { return the error result } of the analysis calls.
AnalyzeCatch(eff) ==
  IF eff.threw
  THEN [eff EXCEPT !.threw = FALSE, !.result = ErrorResult(eff.msg)]
  ELSE eff

AzureAnalyzeDocument(cfg, cl, cache, content, id, custom, ext, thumb, resp) ==
  AnalyzeCatch(AzureAnalyzeDocumentBody(cfg, cl, cache, content, id, custom, ext, thumb, resp))

PlaygroundSystemPrompt(prompt) ==
  <<Block("playgroundPrompt", prompt), Named("playgroundMustHave")>>

AzureAnalyzePlaygroundBody(cfg, cl, cache, content, prompt, resp) ==
  LET cl1 == initialize(cl, cfg)
      system == PlaygroundSystemPrompt(prompt)
      promptTokens == calculateTotalPromptTokens(system, <<>>)
      availableTokens == AvailableTokens(cfg, promptTokens)
      truncatedContent == truncateToTokenLimit(content, availableTokens)
      request == ChatRequest(system, truncatedContent, 0)
      handled == AzureHandleResponse(resp, truncatedContent, content)
  IN  IF cl1 = "null"
      THEN Eff(TRUE, "AzureOpenAI client not initialized - missing API key", NoResult,
               <<>>, <<>>, cl1, cache, cfg.mustHavePrompt)
      ELSE Eff(~handled.ok, handled.msg, handled.result, <<request>>,
               <<availableTokens>>, cl1, cache, cfg.mustHavePrompt)

AzureAnalyzePlayground(cfg, cl, cache, content, prompt, resp) ==
  AnalyzeCatch(AzureAnalyzePlaygroundBody(cfg, cl, cache, content, prompt, resp))

\* A request that carries a prompt and no document content.
PromptRequest(api, system, prompt, numCtx, maxTokens) ==
  [api |-> api, system |-> system, user |-> <<Block("prompt", prompt)>>,
   content |-> 0, num_ctx |-> numCtx, max_tokens |-> maxTokens]

\* generateText: catch (error) { throw error }.
AzureGenerateText(cfg, cl, cache, prompt, resp) ==
  LET cl1 == initialize(cl, cfg)
      request == PromptRequest("chat.completions", <<>>, prompt, 0, 1000)
      none == Eff(TRUE, "", NoResult, <<>>, <<>>, cl1, cache, cfg.mustHavePrompt)
  IN  IF cl1 = "null"
      THEN [none EXCEPT !.msg = "AzureOpenAI client not initialized - missing API key"]
      ELSE IF resp.kind = "transportError"
      THEN [none EXCEPT !.msg = "Request failed", !.sent = <<request>>]
      ELSE IF resp.kind = "noContent"
      THEN [none EXCEPT !.msg = "Invalid API response structure", !.sent = <<request>>]
      ELSE [none EXCEPT !.threw = FALSE, !.text = "generated", !.sent = <<request>>]

StatusOk(model) ==
  [keys |-> {"status", "model"}, status |-> "ok", model |-> model, error |-> ""]
StatusError ==
  [keys |-> {"status"}, status |-> "error", model |-> "", error |-> ""]
StatusErrorWith(message) ==
  [keys |-> {"status", "error"}, status |-> "error", model |-> "", error |-> message]

\* The first of the two checkStatus definitions of the class (394-425); the
\* second definition of the same name replaces it.
AzureCheckStatusFirst(cfg, cl, cache, resp) ==
  LET cl1 == initialize(cl, cfg)
      request == PromptRequest("chat.completions", <<>>, 4, 0, 10)
      none == [Eff(FALSE, "", NoResult, <<>>, <<>>, cl1, cache, cfg.mustHavePrompt)
                 EXCEPT !.status = StatusError]
  IN  IF cl1 = "null"
      THEN [none EXCEPT
              !.status = StatusErrorWith("AzureOpenAI client not initialized - missing API key")]
      ELSE IF resp.kind = "transportError"
      THEN [none EXCEPT !.status = StatusErrorWith("Request failed"), !.sent = <<request>>]
      ELSE IF resp.kind = "noContent"
      THEN [none EXCEPT !.status = StatusErrorWith("Invalid API response structure"),
                        !.sent = <<request>>]
      ELSE [none EXCEPT !.status = StatusOk("AZURE_DEPLOYMENT_NAME"), !.sent = <<request>>]

\* The checkStatus in effect (427-458).
AzureCheckStatus(cfg, cl, cache, resp) ==
  LET cl1 == initialize(cl, cfg)
      request == PromptRequest("chat.completions", <<>>, 4, 0, 1000)
      none == [Eff(FALSE, "", NoResult, <<>>, <<>>, cl1, cache, cfg.mustHavePrompt)
                 EXCEPT !.status = StatusError]
  IN  IF cl1 = "null" THEN none
      ELSE IF resp.kind \in {"transportError", "noContent"}
      THEN [none EXCEPT !.sent = <<request>>]
      ELSE [none EXCEPT !.status = StatusOk("AZURE_DEPLOYMENT_NAME"), !.sent = <<request>>]

\* ------------------------------------------- OllamaService
\* What the free-text backend answers: the transport outcome and, in
\* response.data.response, nothing, an object, or text.  A text is classified
\* by what _parseResponse can do with it: it holds no brace span, it parses
\* directly, it parses after _sanitizeJsonString, or it stays unparseable.
\* A response text is a sequence of segments: "prose" holds no brace, "json"
\* is one complete JSON object, "sloppy" is one object with trailing commas or
\* bare property names, "garbled" is a brace span that is not JSON even after
\* the repair.
Segments == {"prose", "json", "sloppy", "garbled"}
HasBrace(segment) == segment # "prose"

\* response.match(/\{[\s\S]*\}/): the span from the first opening brace to
\* the last closing brace of the text; <<>> when there is no match.
matchSpan(text) ==
  LET at == {i \in 1..Len(text) : HasBrace(text[i])}
  IN  IF at = {} THEN <<>>
      ELSE SubSeq(text, CHOOSE i \in at : \A j \in at : i <= j,
                        CHOOSE i \in at : \A j \in at : i >= j)

\* What JSON.parse and the repair can do with the matched span: text between
\* or after complete objects is a syntax error that the repair does not touch.
ClassOf(text) ==
  LET span == matchSpan(text)
  IN  CASE span = <<>> -> "noBrace"
        [] span = <<"json">> -> "direct"
        [] span = <<"sloppy">> -> "repairable"
        [] OTHER -> "broken"

\* The plain text of each class.
TextOfClass(class) ==
  CASE class = "noBrace" -> <<"prose">>
    [] class = "direct" -> <<"json">>
    [] class = "repairable" -> <<"sloppy">>
    [] OTHER -> <<"garbled">>

OllamaResponse(kind, form, class, obj) ==
  [kind |-> kind, form |-> form, class |-> class, obj |-> obj,
   text |-> TextOfClass(class)]

\* A text answer: obj is the first object that the text holds.
OllamaTextResponse(text, obj) ==
  [kind |-> "data", form |-> "text", class |-> ClassOf(text), obj |-> obj,
   text |-> text]

ResponseTexts ==
  { <<"prose", "json", "prose">>, <<"json", "prose", "json">> }
TextPayloads ==
  { Conforming,
    [Conforming EXCEPT !["tags"] = Undef, !["correspondent"] = Undef],
    Obj(Undef, Str("X"), Arr(<<"A">>), Str("Invoice"), Undef, Undef, Arr(<<"f">>)) }
OllamaResponses ==
  { OllamaResponse("transportError", "missing", "noBrace", Conforming),
    OllamaResponse("noData", "missing", "noBrace", Conforming),
    OllamaResponse("data", "missing", "noBrace", Conforming),
    OllamaResponse("data", "text", "noBrace", Conforming),
    OllamaResponse("data", "text", "broken", Conforming) }
  \cup { OllamaResponse("data", "object", "noBrace", p) : p \in Payloads }
  \cup { OllamaResponse("data", "text", c, p) :
           c \in {"direct", "repairable"}, p \in TextPayloads }
  \cup { OllamaTextResponse(t, Conforming) : t \in ResponseTexts }

\* _truncateContent
truncateContent(cfg, content) ==
  IF cfg.contentMaxLength # NoMaxLength
  THEN Min(content, cfg.contentMaxLength)
  ELSE content

\* _handleThumbnailCaching: [ok, msg, thumbs].
handleThumbnailCaching(cache, id, thumb) ==
  IF id = 0 \/ id \in cache THEN [ok |-> TRUE, msg |-> "", thumbs |-> cache]
  ELSE CASE thumb = "fetchError" ->
              [ok |-> FALSE, msg |-> "getThumbnailImage failed", thumbs |-> cache]
         [] thumb = "nothing" -> [ok |-> TRUE, msg |-> "", thumbs |-> cache]
         [] thumb = "writeError" ->
              [ok |-> FALSE, msg |-> "EACCES: permission denied", thumbs |-> cache]
         [] OTHER -> [ok |-> TRUE, msg |-> "", thumbs |-> cache \cup {id}]

\* JSON.stringify(content): the content between two quotes.
JsonContent(content) == Block("JSON.stringify(content)", content + 2)

\* _buildPrompt: the prompt text and the value config.mustHavePrompt is left
\* with.  The external data is interpolated as the pending promise that the
\* un-awaited _validateAndTruncateExternalApiData call returns.
buildPrompt(cfg, content, ext) ==
  LET mustHave == IF ExistingMode(cfg) THEN cfg.mustHavePrompt
                  ELSE ReplaceCustomFields(cfg.mustHavePrompt)
      p1 == IF ExistingMode(cfg)
            THEN <<Named("taxonomy"), Named("SYSTEM_PROMPT"),
                   ReplaceCustomFields(cfg.mustHavePrompt)>>
            ELSE <<Named("SYSTEM_PROMPT"), mustHave>>
      p2 == processRestrictionsInPrompt(p1, cfg.restrictToExisting)
      p3 == IF ext > 0
            THEN p2 \o <<Named("externalLabel"), Block("[object Promise]", 16)>>
            ELSE p2
      p4 == IF cfg.usePromptTags
            THEN <<Named("predefinedTagsIntro"), Named("specialPromptPreDefinedTags")>>
            ELSE p3
  IN  [prompt |-> Append(p4, JsonContent(content)), mustHave |-> mustHave]

\* The custom-prompt branch of analyzeDocument (566-591).
OllamaCustomPrompt(cfg, content, custom) ==
  <<Block("customPrompt", custom), ReplaceCustomFields(cfg.mustHavePrompt),
    JsonContent(content)>>

\* _calculateNumCtx
calculateNumCtx(cfg, promptTokenCount, expectedResponseTokens) ==
  Min(promptTokenCount + expectedResponseTokens, cfg.tokenLimit)

\* The record _processOllamaResponse and the direct parse of _parseResponse build.
NormalizedRecord(obj) ==
  Obj(OrNull(obj["title"]), OrNull(obj["correspondent"]),
      IF obj["tags"].t = "arr" THEN obj["tags"] ELSE Arr(<<>>),
      OrNull(obj["document_type"]), OrNull(obj["document_date"]),
      OrNull(obj["language"]), OrNull(obj["custom_fields"]))

\* The record the repaired parse of _parseResponse builds (1096-1102).
SanitizedRecord(obj) ==
  Obj(OrNull(obj["title"]), OrNull(obj["correspondent"]),
      IF obj["tags"].t = "arr" THEN obj["tags"] ELSE Arr(<<>>),
      Undef, OrNull(obj["document_date"]), OrNull(obj["language"]), Undef)

\* A parser that keeps what it could read of a text it failed to parse.
parseResponseKeepPartial(resp) ==
  IF resp.class = "direct" THEN NormalizedRecord(resp.obj) ELSE SanitizedRecord(resp.obj)

\* The operations _parseResponse performs on a text, in order: the pattern
\* match, the direct JSON.parse and, when that threw, _sanitizeJsonString
\* followed by the second JSON.parse.
parseSteps(resp) ==
  CASE resp.class = "noBrace" -> <<"match">>
    [] resp.class = "direct" -> <<"match", "JSON.parse">>
    [] OTHER -> <<"match", "JSON.parse", "sanitize", "JSON.parse">>

\* _parseResponse
parseResponse(resp) ==
  CASE resp.class = "noBrace" -> EmptyDocument
    [] resp.class = "direct" -> NormalizedRecord(resp.obj)
    [] resp.class = "repairable" -> SanitizedRecord(resp.obj)
    [] OTHER -> EmptyDocument

\* _callOllamaAPI followed by _processOllamaResponse: [ok, msg, document].
OllamaHandleResponse(resp) ==
  CASE resp.kind = "transportError" ->
         [ok |-> FALSE, msg |-> "Request failed", document |-> EmptyDocument]
    [] resp.kind = "noData" ->
         [ok |-> FALSE, msg |-> "Invalid response from Ollama API",
          document |-> EmptyDocument]
    [] resp.form = "missing" ->
         [ok |-> FALSE, msg |-> "No response data from Ollama API",
          document |-> EmptyDocument]
    [] resp.form = "object" ->
         [ok |-> TRUE, msg |-> "", document |-> NormalizedRecord(resp.obj)]
    [] OTHER -> [ok |-> TRUE, msg |-> "", document |-> parseResponse(resp)]

ZeroMetrics == Metrics(0, 0, 0)

OllamaAnalyzeDocumentBody(cfg, cl, cache, content0, id, custom, ext, thumb, resp) ==
  LET content == truncateContent(cfg, content0)
      th == handleThumbnailCaching(cache, id, thumb)
      built == buildPrompt(cfg, content, ext)
      prompt == IF custom = 0 THEN built.prompt
                ELSE OllamaCustomPrompt(cfg, content, custom)
      mustHave == IF custom = 0 THEN built.mustHave ELSE cfg.mustHavePrompt
      promptTokenCount == calculatePromptTokenCount(TextLen(prompt))
      numCtx == calculateNumCtx(cfg, promptTokenCount, AnalysisResponseTokens)
      request == GenerateRequest(<<Named("ollamaSystemPrompt")>>, prompt, content, numCtx)
      handled == OllamaHandleResponse(resp)
  IN  IF ~th.ok
      THEN Eff(TRUE, th.msg, NoResult, <<>>, <<>>, cl, th.thumbs, cfg.mustHavePrompt)
      ELSE Eff(~handled.ok, handled.msg,
               SuccessResult(handled.document, ZeroMetrics, FALSE),
               <<request>>, <<>>, cl, th.thumbs, mustHave)

OllamaAnalyzeDocument(cfg, cl, cache, content, id, custom, ext, thumb, resp) ==
  AnalyzeCatch(OllamaAnalyzeDocumentBody(cfg, cl, cache, content, id, custom, ext, thumb, resp))

OllamaAnalyzePlaygroundBody(cfg, cl, cache, content, prompt, resp) ==
  LET promptTokenCount == calculateTokens(prompt)
      numCtx == calculateNumCtx(cfg, promptTokenCount, AnalysisResponseTokens)
      request ==
        GenerateRequest(<<Named("ollamaPlaygroundSystemPrompt")>>,
                        <<Block("playgroundPrompt", prompt), JsonContent(content)>>,
                        content, numCtx)
      handled == OllamaHandleResponse(resp)
  IN  Eff(~handled.ok, handled.msg, SuccessResult(handled.document, ZeroMetrics, FALSE),
          <<request>>, <<>>, cl, cache, cfg.mustHavePrompt)

OllamaAnalyzePlayground(cfg, cl, cache, content, prompt, resp) ==
  AnalyzeCatch(OllamaAnalyzePlaygroundBody(cfg, cl, cache, content, prompt, resp))

OllamaGenerateText(cfg, cl, cache, prompt, resp) ==
  LET numCtx == calculateNumCtx(cfg, calculatePromptTokenCount(prompt),
                                GenerateResponseTokens)
      request == PromptRequest("generate", <<Named("ragAssistantSystemPrompt")>>,
                               prompt, numCtx, 0)
      none == Eff(TRUE, "", NoResult, <<request>>, <<>>, cl, cache, cfg.mustHavePrompt)
  IN  IF resp.kind = "transportError" THEN [none EXCEPT !.msg = "Request failed"]
      ELSE IF resp.kind = "noData" \/ resp.form = "missing"
      THEN [none EXCEPT !.msg = "Invalid response from Ollama API"]
      ELSE [none EXCEPT !.threw = FALSE, !.text = "generated"]

\* Outcomes of GET /api/ps.
ProbeOutcomes ==
  {"transportError", "non200", "200noData", "200noModels", "200models",
   "200malformedEntry"}

\* checkStatus with the reads of response.data outside the try block.
OllamaCheckStatusUncaught(cfg, cl, cache, probe) ==
  LET request == PromptRequest("ps", <<>>, 0, 0, 0)
      none == [Eff(FALSE, "", NoResult, <<request>>, <<>>, cl, cache, cfg.mustHavePrompt)
                 EXCEPT !.status = StatusError]
  IN  CASE probe = "200noModels" -> [none EXCEPT !.status = StatusOk("null")]
        [] probe = "200models" -> [none EXCEPT !.status = StatusOk("llama3")]
        [] probe \in {"200noData", "200malformedEntry"} ->
             [none EXCEPT !.threw = TRUE, !.status = NoStatus,
                          !.msg = "Cannot read properties of undefined (reading 'models')"]
        [] OTHER -> none

OllamaCheckStatus(cfg, cl, cache, probe) ==
  LET request == PromptRequest("ps", <<>>, 0, 0, 0)
      none == [Eff(FALSE, "", NoResult, <<request>>, <<>>, cl, cache, cfg.mustHavePrompt)
                 EXCEPT !.status = StatusError]
  IN  CASE probe = "200noModels" -> [none EXCEPT !.status = StatusOk("null")]
        [] probe = "200models" -> [none EXCEPT !.status = StatusOk("llama3")]
        [] OTHER -> none

\* ------------------------------------------------------ adapter calls
PlaygroundPromptLens == {4, 24}
GeneratePromptLens == {8, 40}

Input(content, id, custom, ext, prompt, thumb, resp, probe) ==
  [content |-> content, id |-> id, custom |-> custom, ext |-> ext,
   prompt |-> prompt, thumb |-> thumb, resp |-> resp, probe |-> probe]

NoAzureResponse == AzureResponse("none", FALSE, "bad", Conforming)
NoOllamaResponse == OllamaResponse("none", "missing", "noBrace", Conforming)

Idle ==
  [op |-> "idle", variant |-> "", input |-> Input(0, 0, 0, 0, 0, "", NoAzureResponse, ""),
   outcome |-> "", msg |-> "", result |-> NoResult, text |-> "", status |-> NoStatus,
   sent |-> <<>>, budget |-> <<>>]

\* The call completes: what the caller observes and the state that is left.
Complete(op, variant, input, eff) ==
  /\ call' = [op |-> op, variant |-> variant, input |-> input,
              outcome |-> IF eff.threw THEN "thrown" ELSE "returned",
              msg |-> eff.msg, result |-> eff.result, text |-> eff.text,
              status |-> eff.status, sent |-> eff.sent, budget |-> eff.budget]
  /\ config' = [config EXCEPT !.mustHavePrompt = eff.mustHave]
  /\ client' = eff.client
  /\ thumbs' = eff.thumbs
  /\ UNCHANGED <<tagCache, rag, caching>>

AdapterInit ==
  /\ config \in Configs
  /\ client = "null"
  /\ thumbs = {}
  /\ call = Idle

AzureAnalyzeDocumentCall ==
  /\ call = Idle
  /\ \E content \in ContentLens, id \in DocIds, custom \in CustomPromptLens,
        ext \in ExternalLens, thumb \in ThumbOutcomes, resp \in AzureResponses :
       Complete("analyzeDocument", "azure",
                Input(content, id, custom, ext, 0, thumb, resp, ""),
                AzureAnalyzeDocument(config, client, thumbs, content, id, custom, ext,
                                     thumb, resp))

AzureAnalyzePlaygroundCall ==
  /\ call = Idle
  /\ \E content \in ContentLens, prompt \in PlaygroundPromptLens, resp \in AzureResponses :
       Complete("analyzePlayground", "azure",
                Input(content, 0, 0, 0, prompt, "", resp, ""),
                AzureAnalyzePlayground(config, client, thumbs, content, prompt, resp))

AzureGenerateTextCall ==
  /\ call = Idle
  /\ \E prompt \in GeneratePromptLens, resp \in AzureResponses :
       Complete("generateText", "azure", Input(0, 0, 0, 0, prompt, "", resp, ""),
                AzureGenerateText(config, client, thumbs, prompt, resp))

AzureCheckStatusCall ==
  /\ call = Idle
  /\ \E resp \in AzureResponses :
       Complete("checkStatus", "azure", Input(0, 0, 0, 0, 0, "", resp, ""),
                AzureCheckStatus(config, client, thumbs, resp))

OllamaAnalyzeDocumentCall ==
  /\ call = Idle
  /\ \E content \in ContentLens, id \in DocIds, custom \in CustomPromptLens,
        ext \in ExternalLens, thumb \in ThumbOutcomes, resp \in OllamaResponses :
       Complete("analyzeDocument", "ollama",
                Input(content, id, custom, ext, 0, thumb, resp, ""),
                OllamaAnalyzeDocument(config, client, thumbs, content, id, custom, ext,
                                      thumb, resp))

OllamaAnalyzePlaygroundCall ==
  /\ call = Idle
  /\ \E content \in ContentLens, prompt \in PlaygroundPromptLens, resp \in OllamaResponses :
       Complete("analyzePlayground", "ollama",
                Input(content, 0, 0, 0, prompt, "", resp, ""),
                OllamaAnalyzePlayground(config, client, thumbs, content, prompt, resp))

OllamaGenerateTextCall ==
  /\ call = Idle
  /\ \E prompt \in GeneratePromptLens, resp \in OllamaResponses :
       Complete("generateText", "ollama", Input(0, 0, 0, 0, prompt, "", resp, ""),
                OllamaGenerateText(config, client, thumbs, prompt, resp))

OllamaCheckStatusCall ==
  /\ call = Idle
  /\ \E probe \in ProbeOutcomes :
       Complete("checkStatus", "ollama",
                Input(0, 0, 0, 0, 0, "", NoOllamaResponse, probe),
                OllamaCheckStatus(config, client, thumbs, probe))

\* The caller takes the result; the adapter is ready for the next call.
Return ==
  /\ call # Idle
  /\ call' = Idle
  /\ UNCHANGED <<config, client, thumbs, tagCache, rag, caching>>

\* ------------------------------ thumbnail caching of concurrent calls
\* The thumbnail caching of analyzeDocument, one step per awaited operation:
\* fs.access, paperlessService.getThumbnailImage, fs.mkdir with fs.writeFile.
\* Several analyzeDocument calls are in progress at once; thumbs is the image
\* directory they share.
Runs == 1..MaxRuns

NoRun == [pc |-> "idle", variant |-> "", id |-> 0]

CachingIdle ==
  [runs |-> [p \in Runs |-> NoRun],
   fetched |-> [id \in DocIds |-> 0],
   calls |-> 0]

\* analyzeDocument(content, ..., id, ...) reaches its thumbnail caching and
\* issues fs.access(cachePath).  The free-text variant skips an absent id; the
\* structured-output variant throws before the caching when it has no client.
StartCaching(p) ==
  /\ caching.runs[p].pc = "idle"
  /\ caching.calls < MaxCalls
  /\ \E id \in DocIds, variant \in {"azure", "ollama"} :
       LET pc == IF variant = "ollama" /\ id = 0 THEN "done" ELSE "access"
       IN  /\ variant = "azure" => initialize(client, config) = "ready"
           /\ caching' = [caching EXCEPT
                            !.runs[p] = [pc |-> pc, variant |-> variant, id |-> id],
                            !.calls = @ + 1]
  /\ UNCHANGED <<config, client, thumbs, call, tagCache, rag>>

\* fs.access settles: resolved when the file exists; rejected otherwise, and
\* the catch block calls paperlessService.getThumbnailImage(id).
AccessSettled(p) ==
  /\ caching.runs[p].pc = "access"
  /\ LET id == caching.runs[p].id
     IN  caching' =
           IF id \in thumbs
           THEN [caching EXCEPT !.runs[p].pc = "done"]
           ELSE [caching EXCEPT !.runs[p].pc = "fetch", !.fetched[id] = @ + 1]
  /\ UNCHANGED <<config, client, thumbs, call, tagCache, rag>>

\* getThumbnailImage settles with image data.
FetchResolved(p) ==
  /\ caching.runs[p].pc = "fetch"
  /\ caching' = [caching EXCEPT !.runs[p].pc = "write"]
  /\ UNCHANGED <<config, client, thumbs, call, tagCache, rag>>

\* getThumbnailImage settles with nothing: the free-text variant returns
\* without caching, the structured-output variant passes the missing data to
\* fs.writeFile, which rejects.
FetchEmpty(p) ==
  /\ caching.runs[p].pc = "fetch"
  /\ caching' = [caching EXCEPT
                   !.runs[p].pc = IF caching.runs[p].variant = "ollama"
                                  THEN "done" ELSE "writeFailed"]
  /\ UNCHANGED <<config, client, thumbs, call, tagCache, rag>>

\* getThumbnailImage rejects: the error leaves the caching.
FetchRejected(p) ==
  /\ caching.runs[p].pc = "fetch"
  /\ caching' = [caching EXCEPT !.runs[p].pc = "fetchFailed"]
  /\ UNCHANGED <<config, client, thumbs, call, tagCache, rag>>

\* fs.mkdir and fs.writeFile resolve: the thumbnail is cached.
WriteResolved(p) ==
  /\ caching.runs[p].pc = "write"
  /\ thumbs' = thumbs \cup {caching.runs[p].id}
  /\ caching' = [caching EXCEPT !.runs[p].pc = "done"]
  /\ UNCHANGED <<config, client, call, tagCache, rag>>

\* fs.mkdir or fs.writeFile rejects.
WriteRejected(p) ==
  /\ caching.runs[p].pc = "write"
  /\ caching' = [caching EXCEPT !.runs[p].pc = "writeFailed"]
  /\ UNCHANGED <<config, client, thumbs, call, tagCache, rag>>

\* The call goes on to its analysis, or to its catch block, and ends.
CallEnds(p) ==
  /\ caching.runs[p].pc \in {"done", "fetchFailed", "writeFailed"}
  /\ caching' = [caching EXCEPT !.runs[p] = NoRun]
  /\ UNCHANGED <<config, client, thumbs, call, tagCache, rag>>

\* ------------------------------------------------ RagService.askQuestion
GenericError == "An error occurred while processing your question. Please try again later."
Apology == "An error occurred while generating an answer. Please try again later."
ReferenceTag == "Referência"

Source(docId) == [doc_id |-> docId, title |-> "Source title"]
RagDocIds == {0, MaxDocId, MaxDocId + 1}     \* 0: the source has no doc_id

RECURSIVE SeqsUpTo(_, _)
SeqsUpTo(S, n) ==
  IF n = 0 THEN {<<>>}
  ELSE LET shorter == SeqsUpTo(S, n - 1)
       IN  shorter \cup {Append(q, x) : q \in {r \in shorter : Len(r) = n - 1}, x \in S}

SourceLists == SeqsUpTo({Source(d) : d \in RagDocIds}, MaxSources)

Tag(id, name) == [id |-> id, name |-> name]
TagCaches ==
  { <<Tag(MaxTagId, "Other"), Tag(1, ReferenceTag)>>,
    <<Tag(1, "Other"), Tag(1, ReferenceTag)>>,
    <<Tag(MaxTagId, ReferenceTag), Tag(1, "")>> }

\* What paperlessService.getDocument answered for a source.
Meta(state, isArray, tags) == [state |-> state, tagsIsArray |-> isArray, tags |-> tags]
Unfetched == Meta("unfetched", FALSE, <<>>)
FetchFailed == Meta("failed", FALSE, <<>>)
DocTagLists == {<<>>, <<1>>, <<MaxTagId, 1>>}
Documents == {Meta("ok", FALSE, <<>>)} \cup {Meta("ok", TRUE, q) : q \in DocTagLists}

\* Array.from(tagCache.values()).find(t => t.id === tagId): the name of the
\* first record with that id, "" when there is none.
FindTagName(cache, tagId) ==
  LET at == {i \in 1..Len(cache) : cache[i].id = tagId}
  IN  IF at = {} THEN ""
      ELSE cache[CHOOSE i \in at : \A j \in at : i <= j].name

NonEmptyName(name) == name # ""

\* A lookup by map key: the cache is keyed by tag name, so no id resolves.
ResolveTagNamesByKey(cache, tags) ==
  SelectSeq([i \in 1..Len(tags) |-> ""], NonEmptyName)

\* document.tags.map(...).filter(name => name)
ResolveTagNames(cache, tags) ==
  SelectSeq([i \in 1..Len(tags) |-> FindTagName(cache, tags[i])], NonEmptyName)

Includes(q, x) == \E i \in 1..Len(q) : q[i] = x

\* referenceDocuments.unshift(record): the newest record first.
UnshiftReference(refs, record) == <<record>> \o refs

\* referenceDocuments.push(record)
PushReference(refs, record) == Append(refs, record)

ReferenceDocument(source, tagNames) ==
  [id |-> source.doc_id, title |-> "Document title", tags |-> tagNames]

SourceInfoLine(source, tagNames) == [title |-> source.title, tags |-> tagNames]

Call(name, i) == [call |-> name, i |-> i]

NoPrompt ==
  [composed |-> FALSE, enhancedContext |-> <<>>, sourceInfo |-> <<>>,
   referenceInfo |-> <<>>, citationInstruction |-> {}]

RagIdle ==
  [pc |-> "idle", sources |-> <<>>, idx |-> 0, meta |-> <<>>,
   hasReferenceTag |-> FALSE, referenceDocuments |-> <<>>, sourceInfo |-> <<>>,
   content |-> <<>>, prompt |-> NoPrompt, generateThrew |-> FALSE,
   failedStep |-> "", outcome |-> "", message |-> "", answer |-> "",
   returned |-> <<>>, log |-> <<>>, settled |-> <<>>]

\* An awaited call settles: it is noted with the number of calls that had been
\* issued by then.
Settle(r, name, i) ==
  [r EXCEPT !.settled = Append(@, [call |-> name, i |-> i, after |-> Len(r.log)])]

\* The next source after position i that has a doc_id; 0 when there is none.
NextWithDocId(sources, i) ==
  LET later == {j \in (i + 1)..Len(sources) : sources[j].doc_id # 0}
  IN  IF later = {} THEN 0 ELSE CHOOSE j \in later : \A k \in later : j <= k

\* An outer catch that answers with the apology instead of throwing.
AskQuestionCatchAsAnswer(r, step) ==
  [r EXCEPT !.pc = "done", !.outcome = "returned", !.answer = Apology,
            !.returned = r.sources, !.failedStep = step]

\* The outer catch of askQuestion: whatever was thrown, one generic error.
AskQuestionCatch(r, step) ==
  [r EXCEPT !.pc = "done", !.outcome = "thrown", !.message = GenericError,
            !.failedStep = step]

\* A return that keeps only the sources that have a doc_id.
AskQuestionReturnWithIds(r, answer) ==
  [r EXCEPT !.pc = "done", !.outcome = "returned", !.answer = answer,
            !.returned = SelectSeq(r.sources, LAMBDA src : src.doc_id # 0)]

\* return {answer, sources}
AskQuestionReturn(r, answer) ==
  [r EXCEPT !.pc = "done", !.outcome = "returned", !.answer = answer,
            !.returned = r.sources]

\* The condition under which the citation instruction is the <citation> one.
CitationMode(r) == r.hasReferenceTag /\ Len(r.referenceDocuments) > 0

\* Steps 3b and 4: join the content fetches, compose the prompt and issue
\* generateText.  The instruction block holds the instructions that are present.
Compose(r, enhancedContext) ==
  [r EXCEPT
     !.pc = "awaitGenerate",
     !.prompt = [composed |-> TRUE, enhancedContext |-> enhancedContext,
                 sourceInfo |-> r.sourceInfo,
                 referenceInfo |-> IF CitationMode(r) THEN r.referenceDocuments ELSE <<>>,
                 citationInstruction |->
                   IF CitationMode(r) THEN {"emitCitations"} ELSE {"noSourceReferences"}],
     !.log = Append(r.log, Call("generateText", 0))]

\* Promise.all over the sources: every content fetch is issued, in source order.
IssueContentFetches(r) ==
  LET n == Len(r.sources)
      withId == SelectSeq([i \in 1..n |-> IF r.sources[i].doc_id # 0 THEN i ELSE 0],
                          LAMBDA i : i # 0)
  IN  [r EXCEPT
         !.pc = "awaitContent", !.idx = 0,
         !.content = [i \in 1..n |->
                        IF r.sources[i].doc_id # 0 THEN "pending" ELSE "skipped"],
         !.log = r.log \o [k \in 1..Len(withId) |-> Call("getDocumentContent", withId[k])]]

\* The metadata loop moves on from position i.
ContinueMetadataLoop(r, i) ==
  LET j == NextWithDocId(r.sources, i)
  IN  IF j = 0 THEN IssueContentFetches(r)
      ELSE [r EXCEPT !.pc = "awaitMeta", !.idx = j,
                     !.log = Append(r.log, Call("getDocument", j))]

\* The loop body for a fetched document (73-95).
MetadataFetched(r, i, doc, cache) ==
  LET tagNames == ResolveTagNames(cache, doc.tags)
      isRef == Includes(tagNames, ReferenceTag)
      r1 == IF ~doc.tagsIsArray THEN r
            ELSE [r EXCEPT
                    !.hasReferenceTag = r.hasReferenceTag \/ isRef,
                    !.referenceDocuments =
                      IF isRef
                      THEN PushReference(r.referenceDocuments,
                                         ReferenceDocument(r.sources[i], tagNames))
                      ELSE r.referenceDocuments,
                    !.sourceInfo = Append(r.sourceInfo, SourceInfoLine(r.sources[i], tagNames))]
  IN  ContinueMetadataLoop([r1 EXCEPT !.meta[i] = doc], i)

\* A loop body without its own catch: the failure reaches the outer catch.
MetadataFailedAborts(r, i) ==
  AskQuestionCatch([r EXCEPT !.meta[i] = FetchFailed], "getDocument")

\* The catch of the loop body (96-98): log and go on.
MetadataFailed(r, i) ==
  ContinueMetadataLoop([r EXCEPT !.meta[i] = FetchFailed], i)

\* The positions of the sources in the order their content fetches settled.
CompletionOrder(r) ==
  LET done == SelectSeq(r.settled, LAMBDA e : e.call = "getDocumentContent")
  IN  [k \in 1..Len(done) |-> done[k].i]

\* A join that takes the contributions as they arrive.
EnhancedContextByCompletion(r) ==
  <<0>> \o SelectSeq(CompletionOrder(r), LAMBDA i : r.content[i] = "ok")

\* The enriched context: the retrieval context, then the non-empty
\* contributions in source order.
EnhancedContext(r) ==
  <<0>> \o SelectSeq([i \in 1..Len(r.sources) |-> IF r.content[i] = "ok" THEN i ELSE 0],
                     LAMBDA i : i # 0)

\* AIServiceFactory.getService(): the adapter of the configured provider.
getService(cfg) == cfg.aiProvider

\* What the backend of the active adapter may answer to generateText.
GenerateResponses(variant) ==
  IF variant = "azure"
  THEN {r \in AzureResponses : r.obj = Conforming /\ r.usage}
  ELSE {r \in OllamaResponses : r.obj = Conforming /\ r.class = "noBrace"}

\* The length of the composed prompt.
RagPromptLen == MaxContentLen

\* The try/catch around generateText (169-175).
GeneratedAnswer(eff) == IF eff.threw THEN Apology ELSE eff.text

AskQuestion ==
  /\ rag.pc = "idle"
  /\ rag' = [rag EXCEPT !.pc = "awaitContext", !.log = <<Call("context", MaxRagSources)>>]
  /\ UNCHANGED <<config, client, thumbs, call, tagCache, caching>>

ContextRejected ==
  /\ rag.pc = "awaitContext"
  /\ rag' = AskQuestionCatch(Settle(rag, "context", 0), "context")
  /\ UNCHANGED <<config, client, thumbs, call, tagCache, caching>>

ContextResolved ==
  /\ rag.pc = "awaitContext"
  /\ \E sources \in SourceLists :
       LET r == [Settle(rag, "context", 0) EXCEPT !.sources = sources,
                            !.meta = [i \in 1..Len(sources) |-> Unfetched],
                            !.content = [i \in 1..Len(sources) |-> "unissued"]]
       IN  rag' = IF Len(sources) > 0
                  THEN [r EXCEPT !.pc = "awaitTagCache",
                                 !.log = Append(r.log, Call("ensureTagCache", 0))]
                  ELSE Compose(r, <<0>>)
  /\ UNCHANGED <<config, client, thumbs, call, tagCache, caching>>

TagCacheRejected ==
  /\ rag.pc = "awaitTagCache"
  /\ rag' = AskQuestionCatch(Settle(rag, "ensureTagCache", 0), "ensureTagCache")
  /\ UNCHANGED <<config, client, thumbs, call, tagCache, caching>>

\* paperlessService.ensureTagCache() resolved: the cache holds the tags that
\* the document store reported.
TagCacheResolved ==
  /\ rag.pc = "awaitTagCache"
  /\ tagCache' \in TagCaches
  /\ rag' = ContinueMetadataLoop(Settle(rag, "ensureTagCache", 0), 0)
  /\ UNCHANGED <<config, client, thumbs, call, caching>>

GetDocumentResolved ==
  /\ rag.pc = "awaitMeta"
  /\ \E doc \in Documents :
       rag' = MetadataFetched(Settle(rag, "getDocument", rag.idx), rag.idx, doc, tagCache)
  /\ UNCHANGED <<config, client, thumbs, call, tagCache, caching>>

GetDocumentRejected ==
  /\ rag.pc = "awaitMeta"
  /\ rag' = MetadataFailed(Settle(rag, "getDocument", rag.idx), rag.idx)
  /\ UNCHANGED <<config, client, thumbs, call, tagCache, caching>>

ContentSettled ==
  /\ rag.pc = "awaitContent"
  /\ \E i \in 1..Len(rag.sources), result \in {"ok", "failed"} :
       /\ rag.content[i] = "pending"
       /\ rag' = [Settle(rag, "getDocumentContent", i) EXCEPT !.content[i] = result]
  /\ UNCHANGED <<config, client, thumbs, call, tagCache, caching>>

\* A join that goes on as soon as one of the promises has settled.
AnyContentSettled(r) ==
  \E i \in 1..Len(r.sources) : r.content[i] # "pending"

\* await Promise.all(sources.map(...)): every mapper has returned.
AllContentSettled(r) ==
  \A i \in 1..Len(r.sources) : r.content[i] # "pending"

ContentJoined ==
  /\ rag.pc = "awaitContent"
  /\ AllContentSettled(rag)
  /\ rag' = Compose(rag, EnhancedContext(rag))
  /\ UNCHANGED <<config, client, thumbs, call, tagCache, caching>>

GenerateSettled ==
  /\ rag.pc = "awaitGenerate"
  /\ \E resp \in GenerateResponses(getService(config)) :
       LET eff == IF getService(config) = "azure"
                  THEN AzureGenerateText(config, client, thumbs, RagPromptLen, resp)
                  ELSE OllamaGenerateText(config, client, thumbs, RagPromptLen, resp)
       IN  /\ rag' = AskQuestionReturn([Settle(rag, "generateText", 0)
                                          EXCEPT !.generateThrew = eff.threw],
                                       GeneratedAnswer(eff))
           /\ client' = eff.client
  /\ UNCHANGED <<config, thumbs, call, tagCache, caching>>

\* The caller has the answer; the service takes the next question.
RagReturn ==
  /\ rag.pc = "done"
  /\ rag' = RagIdle
  /\ UNCHANGED <<config, client, thumbs, call, tagCache, caching>>

RagConfigs ==
  { Config(pr, HighTokenLimit, FALSE, FALSE, FALSE, NoMaxLength) : pr \in {"azure", "ollama"} }

RagInit ==
  /\ config \in RagConfigs
  /\ client = "null"
  /\ thumbs = {}
  /\ call = Idle
  /\ tagCache = <<>>
  /\ rag = RagIdle
  /\ caching = CachingIdle

RagNext ==
  \/ AskQuestion
  \/ ContextRejected
  \/ ContextResolved
  \/ TagCacheRejected
  \/ TagCacheResolved
  \/ GetDocumentResolved
  \/ GetDocumentRejected
  \/ ContentSettled
  \/ ContentJoined
  \/ GenerateSettled
  \/ RagReturn

AdapterNext ==
  \/ AzureAnalyzeDocumentCall
  \/ AzureAnalyzePlaygroundCall
  \/ AzureGenerateTextCall
  \/ AzureCheckStatusCall
  \/ OllamaAnalyzeDocumentCall
  \/ OllamaAnalyzePlaygroundCall
  \/ OllamaGenerateTextCall
  \/ OllamaCheckStatusCall
  \/ Return

Init == AdapterInit /\ tagCache = <<>> /\ rag = RagIdle /\ caching = CachingIdle

Spec == Init /\ [][AdapterNext]_vars

SpecRag == RagInit /\ [][RagNext]_vars

\* The structured-output adapter has its client when it is the configured one.
CachingInit ==
  /\ config \in RagConfigs
  /\ client = IF config.aiProvider = "azure" THEN "ready" ELSE "null"
  /\ thumbs \in SUBSET (DocIds \ {0})
  /\ call = Idle
  /\ tagCache = <<>>
  /\ rag = RagIdle
  /\ caching = CachingIdle

CachingNext ==
  \/ \E p \in Runs : StartCaching(p)
  \/ \E p \in Runs : AccessSettled(p)
  \/ \E p \in Runs : FetchResolved(p)
  \/ \E p \in Runs : FetchEmpty(p)
  \/ \E p \in Runs : FetchRejected(p)
  \/ \E p \in Runs : WriteResolved(p)
  \/ \E p \in Runs : WriteRejected(p)
  \/ \E p \in Runs : CallEnds(p)

SpecCaching == CachingInit /\ [][CachingNext]_vars

\* ===================================================================
\* Properties of the adapters (checked under Spec)
\* ===================================================================
AnalysisOps == {"analyzeDocument", "analyzePlayground"}
IsAnalysis == call.op \in AnalysisOps
IsErrorResult(r) ==
  /\ r.keys = {"document", "metrics", "error"}
  /\ r.document = EmptyDocument
  /\ r.metrics = NoMetrics
  /\ r.error # ""

\* The failures of a call, read from its inputs and from what its
\* collaborators answered.
ClientMissing == call.variant = "azure" /\ config.aiProvider # "azure"
ThumbnailFailed ==
  /\ call.op = "analyzeDocument"
  /\ ~ClientMissing
  /\ call.input.id \notin thumbs
  /\ \/ call.variant = "azure" /\ call.input.thumb # "data"
     \/ /\ call.variant = "ollama" /\ call.input.id # 0
        /\ call.input.thumb \in {"fetchError", "writeError"}
BudgetFailed ==
  /\ call.op = "analyzeDocument" /\ call.variant = "azure"
  /\ call.budget # <<>> /\ call.budget[1] <= 0
WireFailed ==
  /\ call.sent # <<>>
  /\ \/ call.input.resp.kind \in {"transportError", "noContent", "noData"}
     \/ call.variant = "ollama" /\ call.input.resp.form = "missing"
JsonParseFailed ==
  /\ call.sent # <<>> /\ ~WireFailed
  /\ \/ call.variant = "azure" /\ call.input.resp.usage /\ call.input.resp.parse = "bad"
     \/ /\ call.variant = "ollama" /\ call.input.resp.form = "text"
        /\ call.input.resp.class \in {"noBrace", "broken"}
ShapeInvalid ==
  /\ call.sent # <<>> /\ ~WireFailed /\ ~JsonParseFailed
  /\ \/ call.variant = "azure" /\ call.input.resp.usage /\ call.input.resp.parse = "null"
     \/ /\ \/ call.variant = "azure" /\ call.input.resp.usage
           \/ call.variant = "ollama"
        /\ \/ call.input.resp.obj["tags"].t # "arr"
           \/ call.input.resp.obj["correspondent"].t # "str"

C2_BudgetExceededAborts ==
  BudgetFailed =>
    /\ call.sent = <<>>
    /\ call.outcome = "returned"
    /\ IsErrorResult(call.result)
    /\ "truncated" \notin call.result.keys

\* The budget is exactly used up by the prompt and the response allowance.
C2_Witness ==
  /\ BudgetFailed /\ call.budget[1] = 0
  /\ call.sent = <<>> /\ IsErrorResult(call.result)

\* C3: in the structured-output analyzePlayground, when tokenLimit -
\* (promptTokens + responseTokens) <= 0 no request is sent and the call
\* returns the error result.
C3_PlaygroundBudgetAborts ==
  (/\ call.op = "analyzePlayground" /\ call.variant = "azure"
   /\ call.budget # <<>> /\ call.budget[1] <= 0)
    => call.sent = <<>> /\ IsErrorResult(call.result)

\* C4: the document content of every analysis request fits a token budget:
\* its estimated token count is at most the configured token limit, which
\* every resolved budget is below.
C4_ContentBoundedByBudget ==
  IsAnalysis =>
    \A i \in 1..Len(call.sent) :
      calculateTokens(call.sent[i].content) <= config.tokenLimit

StructuredPath ==
  /\ IsAnalysis /\ call.sent # <<>> /\ ~WireFailed
  /\ \/ call.variant = "azure" /\ call.input.resp.usage /\ call.input.resp.parse = "obj"
     \/ call.variant = "ollama" /\ call.input.resp.form = "object"

PayloadShapeInvalid ==
  \/ call.input.resp.obj["tags"].t # "arr"
  \/ call.input.resp.obj["correspondent"].t # "str"

\* C12: on the structured path a payload whose tags is not an array or whose
\* correspondent is not a string is never returned as the document: the call
\* gives the error result of the invalid-response-shape failure.
C12_InvalidShapeIsRejected ==
  (StructuredPath /\ PayloadShapeInvalid) =>
    /\ IsErrorResult(call.result)
    /\ call.result.error =
         "Invalid response structure: missing tags array or correspondent string"

\* The payload has every field of the shape, tags an array and correspondent a
\* string.
PayloadConforming ==
  /\ \A f \in Fields : call.input.resp.obj[f].t # "undef"
  /\ ~PayloadShapeInvalid

\* C13: on the structured path a conforming payload is returned unchanged as
\* the document of the result.
C13_StructuredNormalizationIsIdentity ==
  (StructuredPath /\ PayloadConforming) =>
    /\ call.result.keys = {"document", "metrics", "truncated"}
    /\ call.result.document = call.input.resp.obj

\* The free-text path of the normaliser: response.data.response is a text.
FreeTextPath ==
  /\ IsAnalysis /\ call.variant = "ollama"
  /\ call.sent # <<>> /\ ~WireFailed
  /\ call.input.resp.form = "text"

Count(q, x) == Cardinality({i \in 1..Len(q) : q[i] = x})

\* C14: free-text normalisation never raises: the call returns a result without
\* an error field; a text with no brace span, or one that still fails to parse
\* after the repair, gives the canonical empty document; the repair and the
\* second parse happen at most once, and only after the direct parse failed.
C14_FreeTextNormalizationNeverRaises ==
  FreeTextPath =>
    LET steps == parseSteps(call.input.resp) IN
    /\ call.outcome = "returned"
    /\ call.result.keys = {"document", "metrics", "truncated"}
    /\ call.input.resp.class \in {"noBrace", "broken"}
         => call.result.document = EmptyDocument
    /\ Count(steps, "sanitize") <= 1
    /\ Count(steps, "JSON.parse") <= 1 + Count(steps, "sanitize")
    /\ \A i \in 1..Len(steps) :
         steps[i] = "sanitize" =>
           /\ i > 1 /\ steps[i - 1] = "JSON.parse"
           /\ call.input.resp.class \in {"repairable", "broken"}

\* A text that is still unparseable after the repair came back as the empty
\* document, with no error field.
C14_Witness ==
  /\ FreeTextPath /\ call.input.resp.class = "broken"
  /\ call.result.document = EmptyDocument
  /\ "error" \notin call.result.keys

\* The backend gave a usable answer: a payload of valid shape on the structured
\* path, or a text the free-text path could parse.
UsableAnswer ==
  \/ /\ IsAnalysis /\ call.sent # <<>> /\ ~WireFailed
     /\ call.variant = "azure" /\ call.input.resp.parse = "obj"
     /\ ~PayloadShapeInvalid
  \/ /\ IsAnalysis /\ call.sent # <<>> /\ ~WireFailed
     /\ call.variant = "ollama"
     /\ \/ call.input.resp.form = "object"
        \/ call.input.resp.form = "text"
           /\ call.input.resp.class \in {"direct", "repairable"}

UsageMissing == call.variant = "ollama" \/ ~call.input.resp.usage

\* C15: an analysis that got a usable answer from a response without usage
\* data returns a success result whose metrics are all zero.
C15_MissingUsageGivesZeroMetrics ==
  (UsableAnswer /\ UsageMissing) =>
    /\ call.result.keys = {"document", "metrics", "truncated"}
    /\ call.result.metrics = ZeroMetrics

\* C16: when the structured-output adapter is not the configured provider,
\* initialize creates no client and no operation sends a request:
\* analyzeDocument and analyzePlayground return the error result, generateText
\* throws the error to its caller, and the client stays absent.
C16_NoClientNoRequest ==
  (call.op # "idle" /\ ClientMissing) =>
    /\ call.sent = <<>>
    /\ client = "null"
    /\ IsAnalysis =>
         /\ call.outcome = "returned"
         /\ IsErrorResult(call.result)
         /\ call.result.error = call.msg
    /\ call.op = "generateText" =>
         /\ call.outcome = "thrown"
         /\ call.msg = "AzureOpenAI client not initialized - missing API key"
         /\ call.text = ""

\* generateText was called without a client and threw.
C16_Witness ==
  /\ call.op = "generateText" /\ ClientMissing
  /\ call.outcome = "thrown" /\ call.sent = <<>>

\* The blocks of a text that are not the document content.
IsContentBlock(block) == block.k \in {"content", "JSON.stringify(content)"}
WithoutContent(text) == SelectSeq(text, LAMBDA block : ~IsContentBlock(block))

\* The instruction text of a request: its system prompt, then what its user
\* prompt holds besides the document content.
Instructions(request) == request.system \o WithoutContent(request.user)

\* The prompt text that analyzeDocument assembled: the system prompt of the
\* structured-output request, the prompt of the free-text request.
AssembledPrompt(request) ==
  IF request.api = "chat.completions" THEN request.system
  ELSE WithoutContent(request.user)

MustHaveKinds == {"mustHave%CUSTOMFIELDS%", "mustHave+customFields"}

AnalyzeDocumentSent == call.op = "analyzeDocument" /\ call.sent # <<>>

\* C18: with a custom prompt, the instruction text sent to the backend is the
\* custom prompt followed by the must-have block and nothing else.
C18_CustomPromptReplacesSystemPrompt ==
  (AnalyzeDocumentSent /\ call.input.custom > 0) =>
    LET ins == Instructions(call.sent[1]) IN
    /\ Len(ins) = 2
    /\ ins[1] = Block("customPrompt", call.input.custom)
    /\ ins[2].k \in MustHaveKinds

\* C19: in every analyzeDocument request the assembled prompt ends with the
\* must-have block.
C19_PromptEndsWithMustHave ==
  AnalyzeDocumentSent =>
    LET asm == AssembledPrompt(call.sent[1]) IN
    /\ Len(asm) > 0
    /\ asm[Len(asm)].k \in MustHaveKinds

\* C20: when external data is supplied (and no custom prompt replaces the
\* generated text), the instruction text of the request holds the labelled
\* external section with the serialised data, cut to at most
\* MaxExternalTokens estimated tokens.
C20_ExternalDataIsIncluded ==
  (AnalyzeDocumentSent /\ call.input.ext > 0 /\ call.input.custom = 0) =>
    LET ins == Instructions(call.sent[1]) IN
    \E i \in 1..(Len(ins) - 1) :
      /\ ins[i] = Named("externalLabel")
      /\ ins[i + 1] =
           Block("externalData",
                 truncateToTokenLimit(call.input.ext, MaxExternalTokens))
      /\ calculateTokens(ins[i + 1].n) <= MaxExternalTokens

\* C21: no call changes the shared configuration: config, and with it
\* config.mustHavePrompt, is after every step what it was before.
C21_ConfigIsNeverMutated == [][config' = config]_vars

\* The text begins, after any prose, with a complete JSON object.
FirstObjectIsComplete(text) ==
  \E i \in 1..Len(text) :
    /\ text[i] = "json"
    /\ \A j \in 1..(i - 1) : text[j] = "prose"

\* C23: the free-text extraction parses the first balanced object of the
\* text: when a complete JSON object is followed by text that holds another
\* closing brace, the document is the record of that first object.
C23_FirstBalancedSpanIsParsed ==
  (FreeTextPath /\ FirstObjectIsComplete(call.input.resp.text)) =>
    call.result.document = NormalizedRecord(call.input.resp.obj)

GenerateOps == {"analyzeDocument", "analyzePlayground", "generateText"}
GenerateSent == call.variant = "ollama" /\ call.op \in GenerateOps /\ call.sent # <<>>
Allowance(op) ==
  IF op = "generateText" THEN GenerateResponseTokens ELSE AnalysisResponseTokens

\* C24: in every generate request of the free-text variant, num_ctx is the
\* smaller of the token limit and the estimated token count of the prompt that
\* is sent plus the allowance (1024 for the analyses, 512 for generateText), so
\* it never exceeds the token limit.
C24_NumCtxFollowsSentPrompt ==
  GenerateSent =>
    LET request == call.sent[1] IN
    /\ request.num_ctx =
         Min(calculatePromptTokenCount(TextLen(request.user)) + Allowance(call.op),
             config.tokenLimit)
    /\ request.num_ctx <= config.tokenLimit

Succeeded ==
  /\ IsAnalysis /\ call.outcome = "returned"
  /\ call.sent # <<>> /\ "error" \notin call.result.keys

\* C26: in every successful analysis of either variant, result.truncated is
\* true exactly when the content transmitted is shorter than the content that
\* was passed in.
C26_TruncatedTellsContentWasCut ==
  Succeeded =>
    (call.result.truncated <=> call.sent[1].content < call.input.content)

PresentFields(document) == {f \in Fields : document[f] # Undef}

\* C27: the record built from a repaired parse has the same fields as the
\* record a direct parse of the same object builds, document_type and
\* custom_fields included.
C27_RepairedRecordHasAllFields ==
  (FreeTextPath /\ call.input.resp.class = "repairable") =>
    PresentFields(call.result.document) =
      PresentFields(NormalizedRecord(call.input.resp.obj))

\* The thumbnail was not cached and the fetch returned nothing.
ThumbnailAbsent ==
  /\ call.op = "analyzeDocument" /\ ~ClientMissing
  /\ call.input.thumb = "nothing" /\ call.input.id \notin thumbs
  /\ call.variant = "ollama" => call.input.id # 0

\* C28: when the document has no thumbnail, analyzeDocument of either variant
\* skips the cache write, still makes the wire call (unless the token budget
\* is used up) and returns the analysis of the backend, not the error result.
C28_MissingThumbnailIsNotAnError ==
  ThumbnailAbsent =>
    /\ ~BudgetFailed => call.sent # <<>>
    /\ (call.sent # <<>> /\ ~WireFailed /\ ~JsonParseFailed /\ ~ShapeInvalid) =>
         ~IsErrorResult(call.result)

\* C29: the prompt text of every analyzeDocument request, in every mode and
\* with or without a custom prompt, whatever calls were made before, never
\* holds the unexpanded placeholder %CUSTOMFIELDS%.
C29_PlaceholderIsAlwaysExpanded ==
  AnalyzeDocumentSent =>
    \A i \in 1..Len(Instructions(call.sent[1])) :
      Instructions(call.sent[1])[i].k # RawMustHave.k

\* ===================================================================
\* Properties of the thumbnail caching (checked under SpecCaching)
\* ===================================================================
\* C17: over any sequence and interleaving of analyzeDocument calls, the
\* thumbnail of a document id is fetched from the document repository at most
\* once.  (A fetch is issued only by the access check that found no cached
\* file, so none is issued for an id whose thumbnail is present.)
C17_ThumbnailFetchedAtMostOnce ==
  \A id \in DocIds \ {0} : caching.fetched[id] <= 1

\* ===================================================================
\* Properties of askQuestion (checked under SpecRag)
\* ===================================================================
RagDone == rag.pc = "done"

\* C6: when the /context request fails, askQuestion rejects with the generic
\* error, gives no answer, and has called nothing but /context.
C6_ContextFailureIsTerminal ==
  (RagDone /\ rag.failedStep = "context") =>
    /\ rag.outcome = "thrown"
    /\ rag.message = GenericError
    /\ rag.answer = "" /\ rag.returned = <<>>
    /\ rag.log = <<Call("context", MaxRagSources)>>
    /\ ~rag.prompt.composed

C6_Witness ==
  RagDone /\ rag.failedStep = "context" /\ rag.outcome = "thrown"

\* C7: once /context has succeeded, askQuestion returns normally whatever
\* fails afterwards.
C7_OnlyRetrievalIsTerminal ==
  (RagDone /\ Len(rag.log) > 1) => rag.outcome = "returned"

\* The fetched metadata of source i resolves to the reference tag: some tag id
\* of the document is the id of a cache record named "Referência" that no
\* earlier record of the cache shares its id with.
SourceIsReference(i) ==
  /\ rag.sources[i].doc_id # 0
  /\ rag.meta[i].state = "ok" /\ rag.meta[i].tagsIsArray
  /\ \E j \in 1..Len(rag.meta[i].tags), k \in 1..Len(tagCache) :
       /\ tagCache[k].id = rag.meta[i].tags[j]
       /\ tagCache[k].name = ReferenceTag
       /\ \A m \in 1..(k - 1) : tagCache[m].id # rag.meta[i].tags[j]

\* C8: when generateText fails, askQuestion returns the apology as the answer
\* and the sources exactly as the retrieval service gave them.
C8_GenerateFailureGivesApology ==
  (RagDone /\ rag.generateThrew) =>
    /\ rag.outcome = "returned"
    /\ rag.answer = Apology
    /\ rag.returned = rag.sources

\* generateText failed for a list that holds a source without a doc_id.
C8_Witness ==
  /\ RagDone /\ rag.generateThrew /\ rag.answer = Apology
  /\ \E i \in 1..Len(rag.sources) : rag.sources[i].doc_id = 0
  /\ \E i \in 1..Len(rag.sources) : rag.sources[i].doc_id # 0

\* C9: when the metadata fetch of some sources fails, every other source with
\* a doc_id is still fetched, the call returns an answer and all sources, and
\* a failed source gives no reference document, no source-info line and no
\* citation mode.
C9_MetadataFailureIsTolerated ==
  (RagDone /\ \E i \in 1..Len(rag.sources) : rag.meta[i] = FetchFailed) =>
    /\ rag.outcome = "returned"
    /\ rag.answer # ""
    /\ rag.returned = rag.sources
    /\ \A i \in 1..Len(rag.sources) :
         rag.sources[i].doc_id # 0 => rag.meta[i].state \in {"ok", "failed"}
    /\ Len(rag.referenceDocuments)
         = Cardinality({i \in 1..Len(rag.sources) : SourceIsReference(i)})
    /\ Len(rag.sourceInfo)
         = Cardinality({i \in 1..Len(rag.sources) :
                          rag.meta[i].state = "ok" /\ rag.meta[i].tagsIsArray})
    /\ (\A i \in 1..Len(rag.sources) : rag.meta[i].state # "ok")
         => rag.prompt.citationInstruction = {"noSourceReferences"}

\* The first fetch failed, the second found a reference document.
C9_Witness ==
  /\ RagDone /\ Len(rag.sources) = 2
  /\ rag.meta[1] = FetchFailed /\ SourceIsReference(2)
  /\ rag.outcome = "returned" /\ Len(rag.referenceDocuments) = 1

\* C10: the composed prompt holds exactly one citation instruction: the one to
\* emit <citation> tags iff some source with a doc_id resolves to the
\* reference tag, otherwise the one that forbids source references.
C10_ExactlyOneCitationInstruction ==
  rag.prompt.composed =>
    rag.prompt.citationInstruction =
      IF \E i \in 1..Len(rag.sources) : SourceIsReference(i)
      THEN {"emitCitations"}
      ELSE {"noSourceReferences"}

\* One source is tagged, the other is not, and citations are asked for.
C10_Witness ==
  /\ rag.prompt.composed /\ Len(rag.sources) = 2
  /\ SourceIsReference(2) /\ ~SourceIsReference(1)
  /\ rag.meta[1].state = "ok"
  /\ rag.prompt.citationInstruction = {"emitCitations"}

\* The positions of the sources that resolve to the reference tag, in
\* source-list order.
ReferenceSources ==
  SelectSeq([i \in 1..Len(rag.sources) |-> IF SourceIsReference(i) THEN i ELSE 0],
            LAMBDA i : i # 0)

\* C11: the reference-documents block of the composed prompt holds exactly one
\* record for each source that resolves to the reference tag, in source-list
\* order, each with the id of its source, and no other record; the block is
\* empty when no source is tagged.
C11_ReferenceBlockMatchesTaggedSources ==
  rag.prompt.composed =>
    /\ Len(rag.prompt.referenceInfo) = Len(ReferenceSources)
    /\ \A k \in 1..Len(ReferenceSources) :
         /\ rag.prompt.referenceInfo[k].id = rag.sources[ReferenceSources[k]].doc_id
         /\ Includes(rag.prompt.referenceInfo[k].tags, ReferenceTag)

\* Two tagged sources with different ids, and the block lists both in order.
C11_Witness ==
  /\ rag.prompt.composed /\ Len(rag.sources) = 2
  /\ SourceIsReference(1) /\ SourceIsReference(2)
  /\ rag.sources[1].doc_id # rag.sources[2].doc_id
  /\ Len(rag.prompt.referenceInfo) = 2

\* No source is tagged and the block is absent.
C11_WitnessAbsent ==
  /\ rag.prompt.composed /\ Len(rag.sources) = 2
  /\ rag.meta[1].state = "ok" /\ ReferenceSources = <<>>
  /\ rag.prompt.referenceInfo = <<>>

\* C22: the enriched context is the retrieval context (0) followed by the
\* positions of the sources whose content was fetched, in source-list order,
\* whatever the order in which the fetches settled; a source without a doc_id
\* or with a failed fetch contributes nothing, and every other fetch is still
\* joined.
C22_EnrichedContextInSourceOrder ==
  rag.prompt.composed =>
    LET ctx == rag.prompt.enhancedContext
        n == Len(rag.sources)
    IN  /\ Len(ctx) >= 1 /\ ctx[1] = 0
        /\ \A k \in 2..Len(ctx) :
             /\ ctx[k] \in 1..n
             /\ rag.sources[ctx[k]].doc_id # 0
             /\ rag.content[ctx[k]] = "ok"
        /\ \A k, l \in 2..Len(ctx) : k < l => ctx[k] < ctx[l]
        /\ \A i \in 1..n :
             /\ rag.content[i] = "ok" => \E k \in 2..Len(ctx) : ctx[k] = i
             /\ rag.sources[i].doc_id = 0 => rag.content[i] = "skipped"
             /\ rag.sources[i].doc_id # 0 => rag.content[i] \in {"ok", "failed"}

\* The second source's content arrived first; the context lists the first
\* source first.
C22_Witness ==
  /\ rag.prompt.composed /\ Len(rag.sources) = 2
  /\ CompletionOrder(rag) = <<2, 1>>
  /\ rag.prompt.enhancedContext = <<0, 1, 2>>

\* One content fetch failed and the other source still contributes.
C22_WitnessFailure ==
  /\ rag.prompt.composed /\ Len(rag.sources) = 2
  /\ rag.content = <<"failed", "ok">>
  /\ rag.prompt.enhancedContext = <<0, 2>>


\* The positions of the log at which the given calls were issued.
IssuedAt(name) == {k \in 1..Len(rag.log) : rag.log[k].call = name}
IssuedFor(name, i) == {k \in IssuedAt(name) : rag.log[k].i = i}

PerSourceCalls == {"getDocument", "getDocumentContent"}

\* The call issued at position j had settled when the call at position k was
\* issued.
SettledBefore(j, k) ==
  \E s \in 1..Len(rag.settled) :
    /\ rag.settled[s].call = rag.log[j].call
    /\ rag.log[j].call \in PerSourceCalls => rag.settled[s].i = rag.log[j].i
    /\ j <= rag.settled[s].after /\ rag.settled[s].after < k

\* C25: askQuestion is a single pass without retries: /context is requested
\* exactly once and before every per-source fetch; the metadata and the
\* content of each source are fetched at most once; every metadata fetch has
\* settled before a content fetch starts; every content fetch has settled
\* before generateText is called; generateText is called at most once.
C25_SinglePassInOrder ==
  rag.pc # "idle" =>
    /\ IssuedAt("context") = {1}
    /\ \A name \in PerSourceCalls : \A k \in IssuedAt(name) : SettledBefore(1, k)
    /\ \A name \in PerSourceCalls : \A i \in 1..MaxSources :
         Cardinality(IssuedFor(name, i)) <= 1
    /\ \A j \in IssuedAt("getDocument") : \A k \in IssuedAt("getDocumentContent") :
         SettledBefore(j, k)
    /\ \A j \in IssuedAt("getDocumentContent") : \A k \in IssuedAt("generateText") :
         SettledBefore(j, k)
    /\ Cardinality(IssuedAt("generateText")) <= 1

\* Two sources with a doc_id: both metadata fetches, both content fetches and
\* the generation have been made, and the answer is returned.
C25_Witness ==
  /\ rag.pc = "done" /\ rag.outcome = "returned"
  /\ Cardinality(IssuedAt("getDocument")) = 2
  /\ Cardinality(IssuedAt("getDocumentContent")) = 2
  /\ Cardinality(IssuedAt("generateText")) = 1
====
